---- MODULE Spec2Model ----
(***************************************************************************)
(* Feature squeezers of advML/defense/squeezers.py:                        *)
(*   bit_depth_squeeze, median_filter_squeeze, mean_filter_squeeze,        *)
(*   non_local_means_squeeze.                                              *)
(*                                                                         *)
(* A tensor is a record [shape, data]; data maps 1-based index tuples to   *)
(* element values.  An element value is an exact rational [n, d]; d = 0    *)
(* encodes the IEEE specials (0/0 is NaN).  The result of the external     *)
(* non-local-means primitive is kept as an uninterpreted term that records *)
(* every argument of the call and the position of the element.             *)
(***************************************************************************)
EXTENDS Integers, Sequences, FiniteSets, TLC

VARIABLES pc, fn, args, X, X0, X_np, alias, i, calls, result, err

vars == <<pc, fn, args, X, X0, X_np, alias, i, calls, result, err>>

(* ------------------------------ bounds --------------------------------- *)
\* quantizer inputs are k / 4 for k in 0 .. MaxQuantNum
MaxQuantNum == 5
\* smoother inputs are k / 2 for k in 0 .. MaxPixelNum
MaxPixelNum == 1
\* bit depths range over -MaxNegBitDepth .. MaxBitDepth
MaxNegBitDepth == 1
MaxBitDepth == 3
\* window side lengths range over 1 .. MaxSize
MaxSize == 3
\* batch extents of the denoiser's inputs range over 1 .. MaxBatch
MaxBatch == 2

(* --------------------------- exact rationals --------------------------- *)
Abs(a) == IF a < 0 THEN -a ELSE a

Sign(a) == IF a < 0 THEN -1 ELSE IF a > 0 THEN 1 ELSE 0

RECURSIVE Gcd(_, _)
Gcd(a, b) == IF b = 0 THEN a ELSE Gcd(b, a % b)

\* n/d in lowest terms with d > 0; a zero denominator gives NaN (0/0) or +-inf
Rat(n, d) ==
    IF d = 0 THEN [n |-> Sign(n), d |-> 0]
    ELSE LET g == Gcd(Abs(n), Abs(d))
         IN  [n |-> (Sign(d) * n) \div g, d |-> Abs(d) \div g]

NaN == Rat(0, 0)

IsNumber(v) == DOMAIN v = {"n", "d"} /\ v.d # 0

RMul(a, b) == Rat(a.n * b.n, a.d * b.d)

RDiv(a, b) == Rat(a.n * b.d, a.d * b.n)

RAdd(a, b) == Rat(a.n * b.d + b.n * a.d, a.d * b.d)

RLess(a, b) == a.n * b.d < b.n * a.d

\* 2 ** e for a Python int e: an int for e >= 0, the float 2^e for e < 0
RECURSIVE Pow2(_)
Pow2(e) == IF e = 0 THEN Rat(1, 1)
           ELSE IF e > 0 THEN RMul(Rat(2, 1), Pow2(e - 1))
           ELSE RMul(Rat(1, 2), Pow2(e + 1))

(* ------------------------------- tensors ------------------------------- *)
RECURSIVE Indices(_)
Indices(shape) ==
    IF shape = <<>> THEN {<<>>}
    ELSE {<<k>> \o r : k \in 1..Head(shape), r \in Indices(Tail(shape))}

ndim(t) == Len(t.shape)

\* numpy ndarray.transpose(*axes), axes 0-based as in the source
transpose(t, axes) ==
    LET n      == Len(t.shape)
        shape2 == [k \in 1..n |-> t.shape[axes[k] + 1]]
        old(idx) == [m \in 1..n |-> idx[CHOOSE k \in 1..n : axes[k] + 1 = m]]
    IN  [shape |-> shape2,
         data  |-> [idx \in Indices(shape2) |-> t.data[old(idx)]]]

\* t[b] : the sub-array at index b (0-based) of the first axis
Sub(t, b) ==
    [shape |-> Tail(t.shape),
     data  |-> [idx \in Indices(Tail(t.shape)) |-> t.data[<<b + 1>> \o idx]]]

\* t[b] = s : in-place store into the sub-array at index b of the first axis
SetSub(t, b, s) ==
    [t EXCEPT !.data = [idx \in DOMAIN t.data |->
                          IF idx[1] = b + 1 THEN s.data[Tail(idx)]
                          ELSE t.data[idx]]]

(* ---------------------- bit_depth_squeeze (7-20) ----------------------- *)
\* mutant of round: truncation towards minus infinity instead of rounding
round_floor(v) == IF v.d = 0 THEN v ELSE Rat(v.n \div v.d, 1)

\* torch.round: to the nearest integer, halves to the even neighbour
round(v) ==
    IF v.d = 0 THEN v
    ELSE LET q == v.n \div v.d
             r == v.n - q * v.d
         IN  IF 2 * r < v.d THEN Rat(q, 1)
             ELSE IF 2 * r > v.d THEN Rat(q + 1, 1)
             ELSE IF q % 2 = 0 THEN Rat(q, 1) ELSE Rat(q + 1, 1)

\* precision = (2**bit_depth) - 1
precision(bit_depth) == RAdd(Pow2(bit_depth), Rat(-1, 1))

\* X_squeezed = torch.round(X * precision); X_squeezed /= precision
bit_depth_squeeze(T, bit_depth) ==
    [shape |-> T.shape,
     data  |-> [idx \in Indices(T.shape) |->
                  RDiv(round(RMul(T.data[idx], precision(bit_depth))),
                       precision(bit_depth))]]

(* ------------- scipy.ndimage median_filter / uniform_filter ------------ *)
\* mode="reflect": (d c b a | a b c d | d c b a), the edge sample repeated
RECURSIVE Reflect(_, _)
Reflect(p, n) == IF p < 1 THEN Reflect(1 - p, n)
                 ELSE IF p > n THEN Reflect(2 * n + 1 - p, n)
                 ELSE p

\* the window of extent s on one axis covers offsets -(s // 2) .. s - s // 2 - 1
RECURSIVE Offsets(_)
Offsets(size) ==
    IF size = <<>> THEN {<<>>}
    ELSE {<<o>> \o r : o \in (-(Head(size) \div 2)) .. (Head(size) - Head(size) \div 2 - 1),
                       r \in Offsets(Tail(size))}

\* the input sample at idx + off under the boundary mode
Sample(input, idx, off, mode) ==
    LET n   == Len(input.shape)
        pos == [k \in 1..n |-> idx[k] + off[k]]
    IN  IF mode = "reflect"
        THEN input.data[[k \in 1..n |-> Reflect(pos[k], input.shape[k])]]
        ELSE IF \A k \in 1..n : pos[k] \in 1..input.shape[k]
             THEN input.data[pos]
             ELSE Rat(0, 1)

RECURSIVE RSum(_)
RSum(f) ==
    IF DOMAIN f = {} THEN Rat(0, 1)
    ELSE LET o == CHOOSE o \in DOMAIN f : TRUE
         IN  RAdd(f[o], RSum([q \in DOMAIN f \ {o} |-> f[q]]))

\* the element of rank N // 2 among the N window samples
Median(f) ==
    LET k == Cardinality(DOMAIN f) \div 2
    IN  CHOOSE v \in {f[o] : o \in DOMAIN f} :
          /\ Cardinality({o \in DOMAIN f : RLess(f[o], v)}) <= k
          /\ k < Cardinality({o \in DOMAIN f : ~RLess(v, f[o])})

Mean(f) == RDiv(RSum(f), Rat(Cardinality(DOMAIN f), 1))

median_filter(input, size, mode) ==
    [shape |-> input.shape,
     data  |-> [idx \in Indices(input.shape) |->
                  Median([o \in Offsets(size) |-> Sample(input, idx, o, mode)])]]

uniform_filter(input, size, mode) ==
    [shape |-> input.shape,
     data  |-> [idx \in Indices(input.shape) |->
                  Mean([o \in Offsets(size) |-> Sample(input, idx, o, mode)])]]

(* ---------------- skimage.restoration.denoise_nl_means ----------------- *)
\* The primitive is opaque: each output element is the term that records the
\* whole call and the element's position; the array keeps the input's shape.
denoise_nl_means(image, fast_mode, patch_size, patch_distance, channel_axis) ==
    [shape |-> image.shape,
     data  |-> [idx \in Indices(image.shape) |->
                  [nlm |-> [image |-> image, fast_mode |-> fast_mode,
                            patch_size |-> patch_size,
                            patch_distance |-> patch_distance,
                            channel_axis |-> channel_axis],
                   at  |-> idx]]]

(* ------------------------------ inputs --------------------------------- *)
Fns == {"bit_depth_squeeze", "median_filter_squeeze",
        "mean_filter_squeeze", "non_local_means_squeeze"}

\* The quantizer is elementwise: a fine grid of values (quarters, some above 1)
\* on two-element tensors.  The smoothers get halves on tensors with two
\* channels, two samples and a spatial extent.  The denoiser's primitive is
\* opaque, so two values are enough to tell samples and positions apart.
PixelVals(f) ==
    IF f = "bit_depth_squeeze" THEN {Rat(k, 4) : k \in 0..MaxQuantNum}
    ELSE IF f = "non_local_means_squeeze" THEN {Rat(0, 1), Rat(1, 1)}
    ELSE {Rat(k, 2) : k \in 0..MaxPixelNum}

\* ranks 1 to 5; rank 3 is (Channel, Height, Width), rank 4 has Batch in front
Shapes(f) ==
    IF f = "bit_depth_squeeze"
    THEN {<<2>>, <<1, 2>>, <<1, 1, 2>>, <<1, 1, 1, 2>>, <<1, 1, 1, 1, 2>>}
    ELSE IF f = "non_local_means_squeeze"
         THEN {<<2>>, <<2, 2>>, <<2, 1, 3>>, <<1, 1, 1, 1, 2>>}
              \cup {<<b, 1, 1, 2>> : b \in 1..MaxBatch}
         ELSE {<<2>>, <<2, 2>>, <<2, 1, 3>>, <<2, 1, 1, 2>>, <<1, 1, 1, 1, 2>>}

Devices == {"cpu", "cuda"}

Tensors(f) ==
    UNION {[shape : {sh}, data : [Indices(sh) -> PixelVals(f)], device : Devices]
           : sh \in Shapes(f)}

Args(f) ==
    IF f = "bit_depth_squeeze" THEN [bit_depth : (-MaxNegBitDepth)..MaxBitDepth]
    ELSE IF f = "non_local_means_squeeze"
         THEN [patch_size : {3}, patch_distance : {2}, fast_mode : BOOLEAN]
         ELSE [size : 1..MaxSize]

None == [none |-> TRUE]

(* --------------------------- shared plumbing --------------------------- *)
\* X.detach().cpu().numpy(): the array of a host tensor is a view of its storage
numpy(T) == [shape |-> T.shape, data |-> T.data]

shares_memory(T) == T.device = "cpu"

\* torch.from_numpy(X_np).to(X.device): from_numpy wraps the array's memory and
\* .to() returns the same tensor when it is already on the requested device
from_numpy_to(A, viewOfX, device) ==
    [shape |-> A.shape, data |-> A.data, device |-> device,
     shares |-> viewOfX /\ device = "cpu"]

(* ------------- median_filter_squeeze / mean_filter_squeeze ------------- *)
\* mutant of median_size: the rank-3 window also spans the Channel axis
median_size_cube(rank, size) ==
    IF rank = 2 THEN <<size, size>>
    ELSE IF rank = 3 THEN <<size, size, size>>
    ELSE <<1, 1, size, size>>

\* the size= argument of the three branches of median_filter_squeeze
median_size(rank, size) ==
    IF rank = 2 THEN <<size, size>>
    ELSE IF rank = 3 THEN <<1, size, size>>
    ELSE <<1, 1, size, size>>

\* the size= argument of the three branches of mean_filter_squeeze
mean_size(rank, size) ==
    IF rank = 2 THEN <<size, size>>
    ELSE IF rank = 3 THEN <<1, size, size>>
    ELSE <<1, 1, size, size>>

(* ----------------------- non_local_means_squeeze ----------------------- *)
patch_kwargs(a) == [patch_size |-> a.patch_size,
                    patch_distance |-> a.patch_distance,
                    channel_axis |-> -1]

\* the arguments of the primitive in the X.ndim == 2 branch
nlm_call2(A, a) ==
    [image |-> A, fast_mode |-> a.fast_mode, kw |-> patch_kwargs(a)]

\* mutant of nlm_call3: the caller's fast_mode is passed on
nlm_call3_caller(A, a) ==
    [image |-> transpose(A, <<1, 2, 0>>), fast_mode |-> a.fast_mode,
     kw |-> patch_kwargs(a)]

\* the arguments of the primitive in the X.ndim == 3 branch
nlm_call3(A, a) ==
    [image |-> transpose(A, <<1, 2, 0>>), fast_mode |-> TRUE, kw |-> patch_kwargs(a)]

\* mutant of nlm_call4: every iteration denoises the first sample
nlm_call4_first(A, b, a) ==
    [image |-> transpose(Sub(A, 0), <<1, 2, 0>>), fast_mode |-> TRUE,
     kw |-> patch_kwargs(a)]

\* the arguments of the primitive for sample b of the X.ndim == 4 branch
nlm_call4(A, b, a) ==
    [image |-> transpose(Sub(A, b), <<1, 2, 0>>), fast_mode |-> TRUE,
     kw |-> patch_kwargs(a)]

primitive(c) ==
    denoise_nl_means(c.image, c.fast_mode, c.kw.patch_size,
                     c.kw.patch_distance, c.kw.channel_axis)

\* mutant of nlm_back3: the forward permutation is applied a second time
nlm_back3_forward(out) == transpose(out, <<1, 2, 0>>)

\* .transpose(2, 0, 1) of the primitive's result, X.ndim == 3 branch
nlm_back3(out) == transpose(out, <<2, 0, 1>>)

\* .transpose(2, 0, 1) of the primitive's result, X.ndim == 4 branch
nlm_back4(out) == transpose(out, <<2, 0, 1>>)

(* ------------------------------- state --------------------------------- *)
Init ==
    /\ pc = "start"
    /\ fn \in Fns
    /\ args \in Args(fn)
    /\ X \in Tensors(fn)
    /\ X0 = X
    /\ X_np = None
    /\ alias = FALSE
    /\ i = 0
    /\ calls = <<>>
    /\ result = None
    /\ err = "none"

\* lines 7-20
BitDepthSqueeze ==
    /\ pc = "start" /\ fn = "bit_depth_squeeze"
    /\ result' = from_numpy_to(bit_depth_squeeze(numpy(X), args.bit_depth),
                               FALSE, X.device)
    /\ pc' = "returned"
    /\ UNCHANGED <<fn, args, X, X0, X_np, alias, i, calls, err>>

\* lines 24-54; the AssertionError of line 36 is constructed and dropped
MedianFilterSqueeze ==
    /\ pc = "start" /\ fn = "median_filter_squeeze"
    /\ LET A    == numpy(X)
           hit  == ndim(A) \in {2, 3, 4}
           call == [prim |-> "median_filter",
                    size |-> median_size(ndim(A), args.size), mode |-> "reflect"]
           B    == IF hit THEN median_filter(A, call.size, call.mode) ELSE A
           view == IF hit THEN FALSE ELSE shares_memory(X)
       IN  /\ X_np' = B
           /\ alias' = view
           /\ calls' = IF hit THEN <<call>> ELSE <<>>
           /\ result' = from_numpy_to(B, view, X.device)
    /\ pc' = "returned"
    /\ UNCHANGED <<fn, args, X, X0, i, err>>

\* lines 58-86; the AssertionError of line 70 is constructed and dropped
MeanFilterSqueeze ==
    /\ pc = "start" /\ fn = "mean_filter_squeeze"
    /\ LET A    == numpy(X)
           hit  == ndim(A) \in {2, 3, 4}
           call == [prim |-> "uniform_filter",
                    size |-> mean_size(ndim(A), args.size), mode |-> "reflect"]
           B    == IF hit THEN uniform_filter(A, call.size, call.mode) ELSE A
           view == IF hit THEN FALSE ELSE shares_memory(X)
       IN  /\ X_np' = B
           /\ alias' = view
           /\ calls' = IF hit THEN <<call>> ELSE <<>>
           /\ result' = from_numpy_to(B, view, X.device)
    /\ pc' = "returned"
    /\ UNCHANGED <<fn, args, X, X0, i, err>>

\* lines 108-115; the AssertionError of line 109 is constructed and dropped
NlmEnter ==
    /\ pc = "start" /\ fn = "non_local_means_squeeze"
    /\ X_np' = numpy(X)
    /\ alias' = shares_memory(X)
    /\ pc' = "dispatch"
    /\ UNCHANGED <<fn, args, X, X0, i, calls, result, err>>

\* the primitive raises: the exception leaves the function
Raise(c) ==
    /\ calls' = Append(calls, c)
    /\ pc' = "raised"
    /\ err' = "ExternalPrimitiveFailure"
    /\ UNCHANGED <<fn, args, X, X0, X_np, alias, i, result>>

\* lines 116-119
NlmNdim2 ==
    /\ pc = "dispatch" /\ ndim(X) = 2
    /\ LET c == nlm_call2(X_np, args)
       IN  \/ /\ calls' = Append(calls, c)
              /\ X_np' = primitive(c)
              /\ alias' = FALSE
              /\ pc' = "finish"
              /\ UNCHANGED <<fn, args, X, X0, i, result, err>>
           \/ Raise(c)

\* lines 120-123
NlmNdim3 ==
    /\ pc = "dispatch" /\ ndim(X) = 3
    /\ LET c == nlm_call3(X_np, args)
       IN  \/ /\ calls' = Append(calls, c)
              /\ X_np' = nlm_back3(primitive(c))
              /\ alias' = FALSE
              /\ pc' = "finish"
              /\ UNCHANGED <<fn, args, X, X0, i, result, err>>
           \/ Raise(c)

\* lines 124-128, one iteration of the loop over the batch axis; the store
\* X_np[i] = ... writes through to the storage of a host-resident X
NlmNdim4Iter ==
    /\ pc = "dispatch" /\ ndim(X) = 4 /\ i < X_np.shape[1]
    /\ LET c == nlm_call4(X_np, i, args)
           B == SetSub(X_np, i, nlm_back4(primitive(c)))
       IN  \/ /\ calls' = Append(calls, c)
              /\ X_np' = B
              /\ X' = IF alias THEN [X EXCEPT !.data = B.data] ELSE X
              /\ i' = i + 1
              /\ UNCHANGED <<pc, fn, args, X0, alias, result, err>>
           \/ Raise(c)

\* lines 130-131
NlmReturn ==
    /\ \/ pc = "finish"
       \/ pc = "dispatch" /\ ndim(X) \notin {2, 3, 4}
       \/ pc = "dispatch" /\ ndim(X) = 4 /\ i = X_np.shape[1]
    /\ result' = from_numpy_to(X_np, alias, X.device)
    /\ pc' = "returned"
    /\ UNCHANGED <<fn, args, X, X0, X_np, alias, i, calls, err>>

Next ==
    \/ BitDepthSqueeze
    \/ MedianFilterSqueeze
    \/ MeanFilterSqueeze
    \/ NlmEnter
    \/ NlmNdim2
    \/ NlmNdim3
    \/ NlmNdim4Iter
    \/ NlmReturn

Spec == Init /\ [][Next]_vars

(* ------------------------------ claims --------------------------------- *)
Terminal == pc \in {"returned", "raised"}

Rank == ndim(X0)

ValidRank == Rank \in {2, 3, 4}

\* the index prefixes in front of the Height and Width axes
Leads(t) == Indices(SubSeq(t.shape, 1, ndim(t) - 2))

\* the (Height, Width) plane of t at an index prefix
Plane(t, lead) ==
    LET hw == SubSeq(t.shape, ndim(t) - 1, ndim(t))
    IN  [shape |-> hw, data |-> [idx \in Indices(hw) |-> t.data[lead \o idx]]]

\* elementwise == of IEEE floats: NaN is equal to nothing, itself included
FEq(a, b) == IF IsNumber(a) /\ IsNumber(b) THEN a = b
             ELSE IF DOMAIN a = {"n", "d"} /\ DOMAIN b = {"n", "d"}
                  THEN a = b /\ a # NaN
                  ELSE a = b

\* torch.equal: same shape and all elements equal
TensorEq(s, t) ==
    /\ s.shape = t.shape
    /\ \A idx \in Indices(s.shape) : FEq(s.data[idx], t.data[idx])

\* C1: a smoother or the denoiser called with a tensor of rank outside
\* {2, 3, 4} ends in InvalidArgument, before any primitive is called, and
\* returns no tensor.
C1_RankRejected ==
    (fn # "bit_depth_squeeze" /\ ~ValidRank /\ Terminal)
        => (pc = "raised" /\ err = "InvalidArgument" /\ result = None /\ calls = <<>>)

\* C2: bit_depth_squeeze called with bit_depth <= 0 ends in InvalidArgument
\* and returns no tensor.
C2_BitDepthRejected ==
    (fn = "bit_depth_squeeze" /\ args.bit_depth <= 0 /\ Terminal)
        => (pc = "raised" /\ err = "InvalidArgument" /\ result = None)

\* C3: after a call on a tensor of rank 2, 3 or 4 has returned, the caller's
\* tensor holds the element values it held before the call and the returned
\* tensor does not share storage with it.
C3_InputUntouched ==
    (pc = "returned" /\ ValidRank) => (X = X0 /\ ~result.shares)

\* C4: a call that ends in an error of the primitive has produced no output
\* and has left the caller's tensor as it was before the call.
C4_NoPartialFailure ==
    pc = "raised" => (result = None /\ X = X0)

\* C5: on a tensor of rank 2, 3 or 4 every transform returns a tensor of the
\* input's shape; the denoiser's output element at (c, h, w) is the element
\* (h, w, c) of the primitive's output for the channel-last image whose
\* element (h, w, c) is the input element at (c, h, w).
C5_ShapePreserved ==
    (pc = "returned" /\ ValidRank) =>
        /\ result.shape = X0.shape
        /\ (fn = "non_local_means_squeeze" /\ Rank > 2) =>
              \A idx \in Indices(X0.shape) :
                  LET e   == result.data[idx]
                      chw == SubSeq(idx, Rank - 2, Rank)
                      hwc == <<chw[2], chw[3], chw[1]>>
                  IN  /\ e.at = hwc
                      /\ e.nlm.image.data[hwc] = X0.data[idx]

C5_Witness ==
    /\ pc = "returned" /\ fn = "non_local_means_squeeze"
    /\ X0.shape = <<2, 1, 3>> /\ result.shape = <<2, 1, 3>>
    /\ X0.data[<<1, 1, 2>>] # X0.data[<<2, 1, 1>>]

\* C6: sample b of the denoised batch is the result of denoising sample b
\* alone as a rank-3 image with the same arguments.
C6_BatchIndependence ==
    (pc = "returned" /\ fn = "non_local_means_squeeze" /\ Rank = 4) =>
        \A b \in 0..(X0.shape[1] - 1) :
            Sub(result, b) = nlm_back3(primitive(nlm_call3(Sub(numpy(X0), b), args)))

C6_Witness ==
    /\ pc = "returned" /\ fn = "non_local_means_squeeze" /\ Rank = 4
    /\ X0.shape[1] >= 2 /\ i = X0.shape[1]
    /\ Sub(X0, 0) # Sub(X0, 1)
    /\ Sub(result, 0) # Sub(result, 1)

InUnitRange(v) == IsNumber(v) /\ 0 <= v.n /\ v.n <= v.d

\* C7: for elements in [0, 1] and bit_depth >= 1 every output element is
\* k / (2^bit_depth - 1) for an integer k in 0 .. 2^bit_depth - 1 that is a
\* nearest integer to the element times (2^bit_depth - 1).
C7_QuantizerGrid ==
    (/\ pc = "returned" /\ fn = "bit_depth_squeeze" /\ args.bit_depth >= 1
     /\ \A idx \in DOMAIN X0.data : InUnitRange(X0.data[idx])) =>
        LET levels == 2 ^ args.bit_depth - 1
        IN  \A idx \in DOMAIN X0.data :
              \E k \in 0..levels :
                  /\ result.data[idx] = Rat(k, levels)
                  /\ 2 * Abs(X0.data[idx].n * levels - k * X0.data[idx].d)
                        <= X0.data[idx].d

C7_Witness ==
    /\ pc = "returned" /\ fn = "bit_depth_squeeze" /\ args.bit_depth = 2
    /\ \A idx \in DOMAIN X0.data : InUnitRange(X0.data[idx])
    /\ \E idx \in DOMAIN X0.data :
          X0.data[idx] = Rat(3, 4) /\ result.data[idx] = Rat(2, 3)
    /\ \E idx \in DOMAIN X0.data :
          X0.data[idx] = Rat(1, 2) /\ result.data[idx] = Rat(2, 3)

\* C8: quantizing the quantizer's output again with the same bit depth gives
\* a tensor equal to that output, for every input and every bit depth.
C8_Idempotent ==
    (pc = "returned" /\ fn = "bit_depth_squeeze") =>
        TensorEq(bit_depth_squeeze(result, args.bit_depth), result)

\* C9: both smoothers call the filter primitive once, with reflect mode and a
\* window of extent size on the Height and Width axes and 1 on the axes in
\* front; each (Height, Width) plane of the output is the size x size filter
\* of the same plane of the input.
C9_SmootherWindow ==
    (pc = "returned" /\ fn \in {"median_filter_squeeze", "mean_filter_squeeze"}
     /\ ValidRank) =>
        /\ Len(calls) = 1
        /\ calls[1].mode = "reflect"
        /\ Len(calls[1].size) = Rank
        /\ \A k \in 1..Rank :
              calls[1].size[k] = IF k >= Rank - 1 THEN args.size ELSE 1
        /\ \A lead \in Leads(X0) :
              Plane(result, lead) =
                  IF fn = "median_filter_squeeze"
                  THEN median_filter(Plane(X0, lead), <<args.size, args.size>>, "reflect")
                  ELSE uniform_filter(Plane(X0, lead), <<args.size, args.size>>, "reflect")

C9_Witness ==
    /\ pc = "returned" /\ fn = "median_filter_squeeze"
    /\ X0.shape = <<2, 1, 3>> /\ args.size = 3
    /\ Plane(X0, <<1>>) # Plane(X0, <<2>>)
    /\ result.data # X0.data

\* C10: when the denoiser returns, the primitive has been called once with
\* the caller's fast_mode for rank 2, once with fast_mode = TRUE for rank 3,
\* and once per batch index, in order, with fast_mode = TRUE for rank 4.
C10_FastModeDispatch ==
    (pc = "returned" /\ fn = "non_local_means_squeeze" /\ ValidRank) =>
        /\ Rank = 2 => Len(calls) = 1 /\ calls[1].fast_mode = args.fast_mode
        /\ Rank = 3 => Len(calls) = 1 /\ calls[1].fast_mode = TRUE
        /\ Rank = 4 =>
              /\ Len(calls) = X0.shape[1]
              /\ \A j \in 1..Len(calls) :
                    /\ calls[j].fast_mode = TRUE
                    /\ calls[j].image = transpose(Sub(numpy(X0), j - 1), <<1, 2, 0>>)

C10_Witness ==
    /\ pc = "returned" /\ fn = "non_local_means_squeeze"
    /\ Rank = 4 /\ X0.shape[1] = 2 /\ Len(calls) = 2
    /\ args.fast_mode = FALSE /\ calls[2].fast_mode = TRUE

====
